---------------------------- MODULE Spec2Model ----------------------------
(***************************************************************************)
(* Model of spark-error-selector (src/app.py).                             *)
(*                                                                         *)
(* FilterStreamProcessor reads windows ("RDDs") of messages from a Kafka   *)
(* topic.  For every window the callback send_filtered creates a producer, *)
(* walks the messages, counts each one, re-encodes it to ASCII, forwards   *)
(* it to the output topic when it contains a FILTER_LIST keyword, and at   *)
(* the end publishes the cumulative counters to the count topic.           *)
(*                                                                         *)
(* Text is modelled as a sequence of characters, each character a string   *)
(* token; a character outside ASCII is the token of its code point         *)
(* ("U+00FA").  The semantics are those of the interpreter the streaming   *)
(* Kafka binding was written for: the value decoder hands send_filtered    *)
(* unicode text, or None for a Kafka record without a value, and the       *)
(* encoded record is a byte string on which `word in record` is a          *)
(* substring test.                                                         *)
(***************************************************************************)
EXTENDS Integers, Sequences, FiniteSets, TLC

(***************************************************************************)
(* Bounds of the model.                                                    *)
(***************************************************************************)
MaxBatches == 2      \* windows delivered in one run
MaxBatchLen == 2     \* messages in one window
MaxConcurrentLen == 1    \* messages in a window of two overlapping callbacks
MaxRecordLen == 4    \* length of the records over a four-letter alphabet

(***************************************************************************)
(* Constants of the program.                                               *)
(***************************************************************************)
FILTER_LIST ==
    << <<"E", "R", "R", "O", "R">>,
       <<"E", "r", "r", "o", "r">>,
       <<"e", "r", "r", "o", "r">>,
       <<"W", "A", "R", "N">>,
       <<"w", "a", "r", "n">>,
       <<"f", "a", "i", "l", "e", "d">>,
       <<"f", "a", "i", "l", "u", "r", "e">> >>

output_topic == "output_topic"
count_topic == "count_topic"

(***************************************************************************)
(* Values a window can hold.  None is the value of a Kafka record that has *)
(* no payload; it is the one value on which r.encode raises.               *)
(***************************************************************************)
None == <<"<NoneType>">>

MsgAllGood == <<"a", "l", "l", " ", "g", "o", "o", "d">>
MsgSomethingFailed ==
    <<"s", "o", "m", "e", "t", "h", "i", "n", "g", " ",
      "f", "a", "i", "l", "e", "d", " ", "h", "e", "r", "e">>
MsgError == <<"e", "r", "r", "o", "r">>
MsgOk == <<"o", "k">>
MsgUAcuteIled == <<"U+00FA", "i", "l", "e", "d">>

Messages == {MsgAllGood, MsgSomethingFailed, MsgError, MsgOk, MsgUAcuteIled, None}

RECURSIVE SeqsUpTo(_, _)
SeqsUpTo(S, n) ==
    IF n = 0 THEN {<<>>}
    ELSE LET shorter == SeqsUpTo(S, n - 1)
         IN  shorter \cup {Append(s, x) : s \in {t \in shorter : Len(t) = n - 1}, x \in S}

Batches == SeqsUpTo(Messages, MaxBatchLen)

(***************************************************************************)
(* r.encode('ascii', 'backslashreplace'): an ASCII character is kept, any  *)
(* other character is replaced by its backslash escape.                    *)
(***************************************************************************)
NonAscii == {"U+00FA", "U+20AC"}

backslashreplace(ch) ==
    CASE ch = "U+00FA" -> <<"\\", "x", "f", "a">>
      [] ch = "U+20AC" -> <<"\\", "u", "2", "0", "a", "c">>

RECURSIVE encode(_)
encode(r) ==
    IF r = <<>> THEN <<>>
    ELSE (IF Head(r) \in NonAscii THEN backslashreplace(Head(r)) ELSE <<Head(r)>>)
         \o encode(Tail(r))

(***************************************************************************)
(* word in record: literal, case-sensitive substring test.                 *)
(***************************************************************************)

(* Variant: the word has to begin the record or follow a blank.            *)
contains_word(record, word) ==
    \E k \in 0..(Len(record) - Len(word)) :
        /\ SubSeq(record, k + 1, k + Len(word)) = word
        /\ (k = 0 \/ record[k] = " ")

contains(record, word) ==
    \E k \in 0..(Len(record) - Len(word)) :
        SubSeq(record, k + 1, k + Len(word)) = word

(* any(word in record for word in FilterStreamProcessor.FILTER_LIST) *)
matches(record) ==
    \E w \in 1..Len(FILTER_LIST) : contains(record, FILTER_LIST[w])

(***************************************************************************)
(* json.dumps of the counts dictionary, as the text put on the wire.       *)
(***************************************************************************)
Digit == <<"0", "1", "2", "3", "4", "5", "6", "7", "8", "9">>

RECURSIVE str(_)
str(n) ==
    IF n < 10 THEN <<Digit[n + 1]>>
    ELSE str(n \div 10) \o <<Digit[(n % 10) + 1]>>

json_dumps(counts) ==
    <<"{", "\"counts\"", ":", " ", "{", "\"total\"", ":", " ">>
    \o str(counts.counts.total)
    \o <<",", " ", "\"filter\"", ":", " ">>
    \o str(counts.counts.filter)
    \o <<"}", "}">>

(* Reading a count payload back: the integer that follows a key.           *)
DigitValue(d) == (CHOOSE v \in 1..10 : Digit[v] = d) - 1

IsDigit(d) == \E v \in 1..10 : Digit[v] = d

RECURSIVE ReadInt(_, _, _)
ReadInt(s, k, acc) ==
    IF k <= Len(s) /\ IsDigit(s[k])
    THEN ReadInt(s, k + 1, acc * 10 + DigitValue(s[k]))
    ELSE acc

KeyIndex(s, key) == CHOOSE k \in 1..Len(s) : s[k] = key

json_loads(s) ==
    [counts |-> [total |-> ReadInt(s, KeyIndex(s, "\"total\"") + 3, 0),
                 filter |-> ReadInt(s, KeyIndex(s, "\"filter\"") + 3, 0)]]

(***************************************************************************)
(* State.                                                                  *)
(***************************************************************************)
VARIABLES
    state,        \* lifecycle of the streaming context
    totalcount,   \* accumulator: messages seen
    filtercount,  \* accumulator: messages forwarded
    pc,           \* position of the send_filtered callback
    rdd,          \* the window handed to the running (or last) callback
    i,            \* index in rdd.collect() of the next message of the for loop
    producer,     \* calls made on the KafkaProducer of this callback
    stdout,       \* exceptions the except clause of this callback has printed
    nbatches,     \* windows delivered since start
    entry,        \* the value of the two accumulators at callback entry
    last,         \* how the last callback ended
    sink,         \* send_filtered is registered with foreachRDD
    caller,       \* the thread inside start_and_await_termination
    probe,        \* a record put to the keyword test, and the answers given
    workers       \* callbacks running side by side, one per job thread

vars == <<state, totalcount, filtercount, pc, rdd, i, producer, stdout,
          nbatches, entry, last, sink, caller, probe, workers>>

(* What the pipeline itself never touches. *)
aside == <<probe, workers>>

Workers == {1, 2}

NoProbe == [record |-> <<>>, verdicts |-> <<>>]

IdleWorker == [pc |-> "idle", rdd |-> <<>>, i |-> 1, reg |-> 0, sent |-> 0]

Init ==
    /\ state = "Created"
    /\ totalcount = 0
    /\ filtercount = 0
    /\ pc = "idle"
    /\ rdd = <<>>
    /\ i = 1
    /\ producer = <<>>
    /\ stdout = <<>>
    /\ nbatches = 0
    /\ entry = [total |-> 0, filter |-> 0]
    /\ last = "none"
    /\ sink = FALSE
    /\ caller = [done |-> 0, result |-> "none"]
    /\ probe = NoProbe
    /\ workers = [w \in Workers |-> IdleWorker]

(***************************************************************************)
(* Controller.                                                             *)
(***************************************************************************)

(* The statements of start_and_await_termination, in their order.  The     *)
(* caller has executed caller.done of them; a call that has ended leaves   *)
(* its result and the next call starts again at the first statement.       *)
sat_order_start_first == <<"start", "configure_processing", "awaitTermination">>

sat_order == <<"configure_processing", "start", "awaitTermination">>

next_statement == sat_order[caller.done + 1]

advance(c) == [done |-> c.done + 1, result |-> "none"]

ended(c, result) == [done |-> 0, result |-> result]

(* An exception that escapes a callback is reported to the thread blocked  *)
(* in awaitTermination, which raises it.                                   *)
report_error(c) ==
    IF sat_order[c.done + 1] = "awaitTermination"
    THEN ended(c, "raised")
    ELSE c

(* self.configure_processing(): the two accumulators are created at 0 and  *)
(* send_filtered is registered with foreachRDD.  A stream of a context     *)
(* that was started or stopped takes no new output operation: the          *)
(* registration raises, and the accumulators just created are dropped      *)
(* with the closure that held them.                                        *)
configure_processing ==
    /\ next_statement = "configure_processing"
    /\ IF state \in {"Created", "Configured"}
       THEN /\ totalcount' = 0
            /\ filtercount' = 0
            /\ sink' = TRUE
            /\ state' = "Configured"
            /\ caller' = advance(caller)
       ELSE /\ caller' = ended(caller, IF state = "Stopped" THEN "raised_stopped"
                                                            ELSE "raised")
            /\ UNCHANGED <<totalcount, filtercount, sink, state>>
    /\ UNCHANGED <<pc, rdd, i, producer, stdout, nbatches, entry, last, aside>>

(* Variant: a stopped context is replaced by a fresh one and started.      *)
streaming_context_restart ==
    /\ next_statement = "start"
    /\ state' = "Running"
    /\ caller' = advance(caller)
    /\ UNCHANGED <<totalcount, filtercount, sink, pc, rdd, i, producer, stdout,
                   nbatches, entry, last, aside>>

(* self.streaming_context.start(): the context starts to deliver windows.  *)
(* Starting a started context does nothing; starting a stopped one raises. *)
streaming_context_start ==
    /\ next_statement = "start"
    /\ IF state = "Stopped"
       THEN /\ caller' = ended(caller, "raised_stopped")
            /\ state' = state
       ELSE /\ caller' = advance(caller)
            /\ state' = "Running"
    /\ UNCHANGED <<totalcount, filtercount, sink, pc, rdd, i, producer, stdout,
                   nbatches, entry, last, aside>>

(* self.streaming_context.awaitTermination() returns: it does so once the  *)
(* context is stopped.  (It raises when a callback raises, see             *)
(* report_error.)                                                          *)
awaitTermination ==
    /\ next_statement = "awaitTermination"
    /\ state = "Stopped"
    /\ caller' = ended(caller, "returned")
    /\ UNCHANGED <<state, totalcount, filtercount, sink, pc, rdd, i, producer,
                   stdout, nbatches, entry, last, aside>>

(* start_and_await_termination: configure, start the context, then block.  *)
start_and_await_termination ==
    \/ configure_processing
    \/ streaming_context_start
    \/ awaitTermination

(* stop(), called from another thread than the one that awaits.  Stopping  *)
(* waits for the job that is running, so the context is stopped between    *)
(* two callbacks.                                                          *)
stop ==
    /\ state # "Stopped"
    /\ pc = "idle"
    /\ state' = "Stopped"
    /\ UNCHANGED <<totalcount, filtercount, sink, caller, pc, rdd, i, producer,
                   stdout, nbatches, entry, last, aside>>

(***************************************************************************)
(* The callback send_filtered(rdd).                                        *)
(***************************************************************************)

(* Variant: an empty window goes straight to the flush.                    *)
loop_next_skip_empty(done, n) ==
    IF done < n THEN "loop" ELSE IF n = 0 THEN "flush" ELSE "counts"

(* Variant: the loop leaves one message early.                             *)
loop_next_early(done, n) == IF done + 1 < n THEN "loop" ELSE "counts"

(* Where the for loop goes once `done` of `n` collected messages are done. *)
loop_next(done, n) == IF done < n THEN "loop" ELSE "counts"

(* The streaming context calls send_filtered with the window's RDD.        *)
(* A window that comes while no callback is registered goes to nobody.     *)
foreachRDD(batch) ==
    /\ state = "Running"
    /\ pc = "idle"
    /\ nbatches < MaxBatches
    /\ nbatches' = nbatches + 1
    /\ IF sink
       THEN /\ rdd' = batch
            /\ i' = 1
            /\ producer' = <<>>
            /\ stdout' = <<>>
            /\ pc' = "producer"
            /\ entry' = [total |-> totalcount, filter |-> filtercount]
            /\ last' = last
       ELSE /\ last' = "dropped"
            /\ UNCHANGED <<rdd, i, producer, stdout, pc, entry>>
    /\ UNCHANGED <<state, totalcount, filtercount, sink, caller, aside>>

(* Variant: the accumulators are created inside the callback.              *)
new_producer_reset(raises) ==
    /\ pc = "producer"
    /\ totalcount' = 0
    /\ filtercount' = 0
    /\ IF raises
       THEN /\ pc' = "done"
            /\ last' = "raised"
            /\ caller' = report_error(caller)
       ELSE /\ pc' = loop_next(0, Len(rdd))
            /\ last' = last
            /\ caller' = caller
    /\ UNCHANGED <<state, rdd, i, producer, stdout, nbatches, entry, sink, aside>>

(* Variant: the window is counted before the producer is constructed.      *)
new_producer_counts_first(raises) ==
    /\ pc = "producer"
    /\ totalcount' = totalcount + Len(rdd)
    /\ IF raises
       THEN /\ pc' = "done"
            /\ last' = "raised"
            /\ caller' = report_error(caller)
       ELSE /\ pc' = loop_next(0, Len(rdd))
            /\ last' = last
            /\ caller' = caller
    /\ UNCHANGED <<state, filtercount, rdd, i, producer, stdout, nbatches, entry,
                   sink, aside>>

(* producer = kafka.KafkaProducer(bootstrap_servers=self.servers)          *)
(* The constructor raises when no broker can be reached; nothing catches   *)
(* it, so the callback ends there.                                         *)
new_producer(raises) ==
    /\ pc = "producer"
    /\ IF raises
       THEN /\ pc' = "done"
            /\ last' = "raised"
            /\ caller' = report_error(caller)
       ELSE /\ pc' = loop_next(0, Len(rdd))
            /\ last' = last
            /\ caller' = caller
    /\ UNCHANGED <<state, totalcount, filtercount, rdd, i, producer,
                   stdout, nbatches, entry, sink, aside>>

(* One call of producer.send, and whether it raised.                       *)
Call(topic, value, raised) ==
    [op |-> "send", topic |-> topic, value |-> value, raised |-> raised]

(* Variants of the try block, each a slip the code could have made.        *)
(* no `if`: every encoded record is forwarded *)
try_block_no_filter(r, sendRaises) ==
    IF r = None
    THEN [total |-> 1, filter |-> 0, calls |-> <<>>, printed |-> <<"AttributeError">>]
    ELSE IF sendRaises
         THEN [total |-> 1, filter |-> 0,
               calls |-> <<Call(output_topic, encode(r), TRUE)>>,
               printed |-> <<"KafkaError">>]
         ELSE [total |-> 1, filter |-> 1,
               calls |-> <<Call(output_topic, encode(r), FALSE)>>, printed |-> <<>>]

(* the two accumulators exchanged *)
try_block_swapped(r, sendRaises) ==
    IF r = None
    THEN [total |-> 0, filter |-> 1, calls |-> <<>>, printed |-> <<"AttributeError">>]
    ELSE IF matches(encode(r))
         THEN IF sendRaises
              THEN [total |-> 0, filter |-> 1,
                    calls |-> <<Call(output_topic, encode(r), TRUE)>>,
                    printed |-> <<"KafkaError">>]
              ELSE [total |-> 1, filter |-> 1,
                    calls |-> <<Call(output_topic, encode(r), FALSE)>>,
                    printed |-> <<>>]
         ELSE [total |-> 0, filter |-> 1, calls |-> <<>>, printed |-> <<>>]

(* totalcount.add(1) inside the `if`: only matching messages are counted *)
try_block_count_matching(r, sendRaises) ==
    IF r = None
    THEN [total |-> 0, filter |-> 0, calls |-> <<>>, printed |-> <<"AttributeError">>]
    ELSE IF matches(encode(r))
         THEN IF sendRaises
              THEN [total |-> 1, filter |-> 0,
                    calls |-> <<Call(output_topic, encode(r), TRUE)>>,
                    printed |-> <<"KafkaError">>]
              ELSE [total |-> 1, filter |-> 1,
                    calls |-> <<Call(output_topic, encode(r), FALSE)>>,
                    printed |-> <<>>]
         ELSE [total |-> 0, filter |-> 0, calls |-> <<>>, printed |-> <<>>]

(* totalcount.add(1) after the encode *)
try_block_count_after_encode(r, sendRaises) ==
    IF r = None
    THEN [total |-> 0, filter |-> 0, calls |-> <<>>, printed |-> <<"AttributeError">>]
    ELSE IF matches(encode(r))
         THEN IF sendRaises
              THEN [total |-> 1, filter |-> 0,
                    calls |-> <<Call(output_topic, encode(r), TRUE)>>,
                    printed |-> <<"KafkaError">>]
              ELSE [total |-> 1, filter |-> 1,
                    calls |-> <<Call(output_topic, encode(r), FALSE)>>,
                    printed |-> <<>>]
         ELSE [total |-> 1, filter |-> 0, calls |-> <<>>, printed |-> <<>>]

(* totalcount.add(1) as the last statement of the try block *)
try_block_count_at_end(r, sendRaises) ==
    IF r = None
    THEN [total |-> 0, filter |-> 0, calls |-> <<>>, printed |-> <<"AttributeError">>]
    ELSE IF matches(encode(r))
         THEN IF sendRaises
              THEN [total |-> 0, filter |-> 0,
                    calls |-> <<Call(output_topic, encode(r), TRUE)>>,
                    printed |-> <<"KafkaError">>]
              ELSE [total |-> 1, filter |-> 1,
                    calls |-> <<Call(output_topic, encode(r), FALSE)>>,
                    printed |-> <<>>]
         ELSE [total |-> 1, filter |-> 0, calls |-> <<>>, printed |-> <<>>]

(* filtercount.add(1) before producer.send *)
try_block_filter_before_send(r, sendRaises) ==
    IF r = None
    THEN [total |-> 1, filter |-> 0, calls |-> <<>>, printed |-> <<"AttributeError">>]
    ELSE IF matches(encode(r))
         THEN IF sendRaises
              THEN [total |-> 1, filter |-> 1,
                    calls |-> <<Call(output_topic, encode(r), TRUE)>>,
                    printed |-> <<"KafkaError">>]
              ELSE [total |-> 1, filter |-> 1,
                    calls |-> <<Call(output_topic, encode(r), FALSE)>>,
                    printed |-> <<>>]
         ELSE [total |-> 1, filter |-> 0, calls |-> <<>>, printed |-> <<>>]

(* filtercount.add(1) skipped: matches are forwarded but never counted *)
try_block_filter_never(r, sendRaises) ==
    IF r = None
    THEN [total |-> 1, filter |-> 0, calls |-> <<>>, printed |-> <<"AttributeError">>]
    ELSE IF matches(encode(r))
         THEN [total |-> 1, filter |-> 0,
               calls |-> <<Call(output_topic, encode(r), sendRaises)>>,
               printed |-> IF sendRaises THEN <<"KafkaError">> ELSE <<>>]
         ELSE [total |-> 1, filter |-> 0, calls |-> <<>>, printed |-> <<>>]

(* The try block and its except clause for one message r.  sendRaises says *)
(* whether producer.send raises if it is called.  The result is what the   *)
(* iteration adds to each accumulator, the calls it makes on the producer  *)
(* and what the except clause prints.                                      *)
try_block(r, sendRaises) ==
    IF r = None
    THEN \* totalcount.add(1); r.encode raises AttributeError
         [total |-> 1, filter |-> 0, calls |-> <<>>,
          printed |-> <<"AttributeError">>]
    ELSE LET record == encode(r)
         IN  IF matches(record)
             THEN IF sendRaises
                  THEN \* producer.send raises; filtercount.add is skipped
                       [total |-> 1, filter |-> 0,
                        calls |-> <<Call(output_topic, record, TRUE)>>,
                        printed |-> <<"KafkaError">>]
                  ELSE [total |-> 1, filter |-> 1,
                        calls |-> <<Call(output_topic, record, FALSE)>>,
                        printed |-> <<>>]
             ELSE [total |-> 1, filter |-> 0, calls |-> <<>>, printed |-> <<>>]

(* Variant: the except clause re-raises, which ends the callback.          *)
except_next_abort(done, n) == "done"

(* Where control goes after the except clause has printed the exception.   *)
except_next(done, n) == loop_next(done, n)

(* One iteration of `for r in rdd.collect()`.                              *)
loop_iteration(sendRaises) ==
    /\ pc = "loop"
    /\ LET res == try_block(rdd[i], sendRaises)
       IN  /\ totalcount' = totalcount + res.total
           /\ filtercount' = filtercount + res.filter
           /\ producer' = producer \o res.calls
           /\ stdout' = stdout \o res.printed
           /\ pc' = IF res.printed = <<>>
                    THEN loop_next(i, Len(rdd))
                    ELSE except_next(i, Len(rdd))
    /\ i' = i + 1
    /\ UNCHANGED <<state, rdd, nbatches, entry, last, sink, caller, aside>>

(* Variant: the snapshot reports what this window added.                   *)
counts_dict_delta(total, filter) ==
    [counts |-> [total |-> total - entry.total, filter |-> filter - entry.filter]]

(* counts = {'counts': {'total': totalcount.value, 'filter': filtercount.value}} *)
counts_dict(total, filter) ==
    [counts |-> [total |-> total, filter |-> filter]]

(* Variant: when the send of the snapshot raises, the accumulators are set *)
(* back to what they were when the callback began.                         *)
send_counts_rollback(raises) ==
    /\ pc = "counts"
    /\ LET payload == json_dumps(counts_dict(totalcount, filtercount))
       IN  /\ producer' = Append(producer, Call(count_topic, payload, raises))
           /\ IF raises
              THEN /\ pc' = "done"
                   /\ last' = "raised"
                   /\ caller' = report_error(caller)
                   /\ totalcount' = entry.total
                   /\ filtercount' = entry.filter
              ELSE /\ pc' = "flush"
                   /\ last' = last
                   /\ caller' = caller
                   /\ UNCHANGED <<totalcount, filtercount>>
    /\ UNCHANGED <<state, rdd, i, stdout, nbatches, entry, sink, aside>>

(* counts = {...}; producer.send(self.count_topic, json.dumps(counts))     *)
(* An exception of this send is not caught: the callback ends without      *)
(* flushing.                                                               *)
send_counts(raises) ==
    /\ pc = "counts"
    /\ LET payload == json_dumps(counts_dict(totalcount, filtercount))
       IN  /\ producer' = Append(producer, Call(count_topic, payload, raises))
           /\ IF raises
              THEN /\ pc' = "done"
                   /\ last' = "raised"
                   /\ caller' = report_error(caller)
              ELSE /\ pc' = "flush"
                   /\ last' = last
                   /\ caller' = caller
    /\ UNCHANGED <<state, totalcount, filtercount, rdd, i, stdout, nbatches, entry,
                   sink, aside>>

(* Variant: the callback returns without flushing.                         *)
flush_skipped ==
    /\ pc = "flush"
    /\ pc' = "done"
    /\ last' = "returned"
    /\ UNCHANGED <<state, totalcount, filtercount, rdd, i, producer, stdout,
                   nbatches, entry, sink, caller, aside>>

(* producer.flush(), the last statement of the callback.                   *)
flush ==
    /\ pc = "flush"
    /\ producer' = Append(producer, [op |-> "flush", topic |-> "", value |-> <<>>,
                                     raised |-> FALSE])
    /\ pc' = "done"
    /\ last' = "returned"
    /\ UNCHANGED <<state, totalcount, filtercount, rdd, i, stdout,
                   nbatches, entry, sink, caller, aside>>

(* The callback is left, by return or by exception: its locals (the        *)
(* window, the producer) are gone, the accumulators stay.                  *)
callback_exit ==
    /\ pc = "done"
    /\ pc' = "idle"
    /\ rdd' = <<>>
    /\ i' = 1
    /\ producer' = <<>>
    /\ stdout' = <<>>
    /\ entry' = [total |-> totalcount, filter |-> filtercount]
    /\ UNCHANGED <<state, totalcount, filtercount, nbatches, last, sink,
                   caller, aside>>

send_filtered ==
    \/ \E raises \in BOOLEAN : new_producer(raises)
    \/ \E sendRaises \in BOOLEAN : loop_iteration(sendRaises)
    \/ \E raises \in BOOLEAN : send_counts(raises)
    \/ flush
    \/ callback_exit

Next ==
    \/ start_and_await_termination
    \/ stop
    \/ \E batch \in Batches : foreachRDD(batch)
    \/ send_filtered

Spec == Init /\ [][Next]_vars

(***************************************************************************)
(* The keyword test on its own: a record is put to it, twice.              *)
(***************************************************************************)
Affixes == {<<>>, <<"x">>, <<" ">>, <<"l", "e", "s", "s">>}

NearMisses ==
    { <<"E", "R", "R", "o", "r">>,
      <<"e", "R", "R", "O", "R">>,
      <<"W", "a", "r", "n">>,
      <<"W", "A", "R", "n">>,
      <<"F", "A", "I", "L", "E", "D">>,
      <<"F", "a", "i", "l", "u", "r", "e">>,
      <<"f", "a", "i", "l">>,
      <<"e", "r", "r", "o">>,
      <<"r", "r", "o", "r">>,
      <<"w", "a", " ", "r", "n">>,
      <<"f", "a", "i", "l", "u", "r">> }

Records ==
    {p \o c \o q : p \in Affixes, q \in Affixes,
                   c \in NearMisses \cup {FILTER_LIST[w] : w \in 1..Len(FILTER_LIST)}}
    \cup SeqsUpTo({"w", "a", "r", "n"}, MaxRecordLen)
    \cup {encode(m) : m \in Messages \ {None}}

InitClassifier ==
    /\ state = "Created"
    /\ totalcount = 0
    /\ filtercount = 0
    /\ pc = "idle"
    /\ rdd = <<>>
    /\ i = 1
    /\ producer = <<>>
    /\ stdout = <<>>
    /\ nbatches = 0
    /\ entry = [total |-> 0, filter |-> 0]
    /\ last = "none"
    /\ sink = FALSE
    /\ caller = [done |-> 0, result |-> "none"]
    /\ probe \in {[record |-> r, verdicts |-> <<>>] : r \in Records}
    /\ workers = [w \in Workers |-> IdleWorker]

(* any(word in record for word in FilterStreamProcessor.FILTER_LIST), once more *)
classify ==
    /\ Len(probe.verdicts) < 2
    /\ probe' = [probe EXCEPT !.verdicts = Append(@, matches(probe.record))]
    /\ UNCHANGED <<state, totalcount, filtercount, pc, rdd, i, producer, stdout,
                   nbatches, entry, last, sink, caller, workers>>

SpecClassifier == InitClassifier /\ [][classify]_vars

(***************************************************************************)
(* Two callbacks side by side.                                             *)
(*                                                                         *)
(* With more than one streaming job at a time the scheduler runs           *)
(* send_filtered for two windows in two threads of the driver.  Both       *)
(* closures hold the same two accumulators.  add(1) on an accumulator is   *)
(* a read of its value followed by a write of the sum, with no lock: the   *)
(* two halves are separate steps here.  Each callback has its own          *)
(* producer; of its sends only the number accepted for the output topic    *)
(* is kept.                                                                *)
(***************************************************************************)
ConcurrentBatches == SeqsUpTo(Messages, MaxConcurrentLen)

InitConcurrent ==
    /\ state = "Running"
    /\ totalcount = 0
    /\ filtercount = 0
    /\ pc = "idle"
    /\ rdd = <<>>
    /\ i = 1
    /\ producer = <<>>
    /\ stdout = <<>>
    /\ nbatches = 0
    /\ entry = [total |-> 0, filter |-> 0]
    /\ last = "none"
    /\ sink = TRUE
    /\ caller = [done |-> 2, result |-> "none"]
    /\ probe = NoProbe
    /\ workers = [w \in Workers |-> IdleWorker]

sequential == <<state, pc, rdd, i, producer, stdout, entry, last, sink, caller, probe>>

(* Where a worker's loop goes once `done` of `n` messages are done. *)
worker_next(done, n) == IF loop_next(done, n) = "loop" THEN "total_read" ELSE "counts"

(* A job thread calls send_filtered with its window. *)
worker_foreachRDD(w, batch) ==
    /\ workers[w].pc = "idle"
    /\ nbatches < Cardinality(Workers)
    /\ nbatches' = nbatches + 1
    /\ workers' = [workers EXCEPT ![w] =
                      [pc |-> worker_next(0, Len(batch)), rdd |-> batch, i |-> 1,
                       reg |-> 0, sent |-> 0]]
    /\ UNCHANGED <<totalcount, filtercount, sequential>>

(* totalcount.add(1), first half: the value is read. *)
worker_total_read(w) ==
    /\ workers[w].pc = "total_read"
    /\ workers' = [workers EXCEPT ![w].reg = totalcount, ![w].pc = "total_write"]
    /\ UNCHANGED <<totalcount, filtercount, nbatches, sequential>>

(* totalcount.add(1), second half: the sum is written. *)
worker_total_write(w) ==
    /\ workers[w].pc = "total_write"
    /\ totalcount' = workers[w].reg + 1
    /\ workers' = [workers EXCEPT ![w].pc = "try"]
    /\ UNCHANGED <<filtercount, nbatches, sequential>>

(* The rest of the try block up to filtercount.add: encode, test, send. *)
worker_try(w, sendRaises) ==
    /\ workers[w].pc = "try"
    /\ LET me == workers[w]
           res == try_block(me.rdd[me.i], sendRaises)
       IN  workers' = [workers EXCEPT ![w] =
                IF res.filter = 1
                THEN [me EXCEPT !.pc = "filter_read", !.sent = me.sent + 1]
                ELSE [me EXCEPT !.pc = worker_next(me.i, Len(me.rdd)),
                                !.i = me.i + 1]]
    /\ UNCHANGED <<totalcount, filtercount, nbatches, sequential>>

(* filtercount.add(1), first half. *)
worker_filter_read(w) ==
    /\ workers[w].pc = "filter_read"
    /\ workers' = [workers EXCEPT ![w].reg = filtercount, ![w].pc = "filter_write"]
    /\ UNCHANGED <<totalcount, filtercount, nbatches, sequential>>

(* filtercount.add(1), second half; the iteration is over. *)
worker_filter_write(w) ==
    /\ workers[w].pc = "filter_write"
    /\ filtercount' = workers[w].reg + 1
    /\ workers' = [workers EXCEPT
                      ![w].pc = worker_next(workers[w].i, Len(workers[w].rdd)),
                      ![w].i = workers[w].i + 1]
    /\ UNCHANGED <<totalcount, nbatches, sequential>>

(* The count snapshot is sent, the producer flushed, the callback returns. *)
worker_counts(w) ==
    /\ workers[w].pc = "counts"
    /\ workers' = [workers EXCEPT ![w].pc = "done"]
    /\ UNCHANGED <<totalcount, filtercount, nbatches, sequential>>

NextConcurrent ==
    \E w \in Workers :
        \/ \E batch \in ConcurrentBatches : worker_foreachRDD(w, batch)
        \/ worker_total_read(w)
        \/ worker_total_write(w)
        \/ \E sendRaises \in BOOLEAN : worker_try(w, sendRaises)
        \/ worker_filter_read(w)
        \/ worker_filter_write(w)
        \/ worker_counts(w)

SpecConcurrent == InitConcurrent /\ [][NextConcurrent]_vars

(***************************************************************************)
(* Vocabulary of the properties.                                           *)
(***************************************************************************)

(* The callback has run to its end and is about to be left. *)
Returned == pc = "done" /\ last = "returned"

(* The for loop of the current callback is over. *)
LoopDone == pc \in {"counts", "flush"} \/ Returned

(* Positions in the producer's call list of the sends to a topic. *)
SendsTo(topic) ==
    {c \in 1..Len(producer) : producer[c].op = "send" /\ producer[c].topic = topic}

Accepted(topic) == {c \in SendsTo(topic) : ~producer[c].raised}

Refused(topic) == {c \in SendsTo(topic) : producer[c].raised}

(* Positions in the producer's call list of the calls of flush. *)
FlushCalls == {c \in 1..Len(producer) : producer[c].op = "flush"}

(* The callback was ended by an exception and is about to be left. *)
Escaped == pc = "done" /\ last = "raised"

(* The two accumulators as they are. *)
Counters == [total |-> totalcount, filter |-> filtercount]

(* Messages of the window that the loop has gone through. *)
Processed == 1..(i - 1)

(* Messages of the window whose encoding raises, and those whose encoded   *)
(* form holds a keyword.                                                   *)
Unencodable == {k \in 1..Len(rdd) : rdd[k] = None}

Matching == {k \in 1..Len(rdd) : rdd[k] # None /\ matches(encode(rdd[k]))}

(* No message of the window failed: each was encoded and no send raised. *)
NoMessageFailure == Unencodable = {} /\ Refused(output_topic) = {}

(* This step is an iteration of the for loop (and not a step of another    *)
(* thread taken while the loop is under way).                              *)
IterationStep == pc = "loop" /\ i' = i + 1

(* This step of the loop made a send to the output topic that raised. *)
SendRaisedInStep ==
    /\ pc = "loop"
    /\ Len(producer') = Len(producer) + 1
    /\ producer'[Len(producer')].topic = output_topic
    /\ producer'[Len(producer')].raised

(***************************************************************************)
(* C1: every record sent to the output topic is the encoded form of a      *)
(* message of the window being processed, and that encoded form holds a    *)
(* FILTER_LIST keyword; a record without a keyword is never sent there.    *)
(***************************************************************************)
C1_OnlyMatchingForwarded ==
    \A c \in SendsTo(output_topic) :
        /\ matches(producer[c].value)
        /\ \E k \in Processed :
              /\ rdd[k] # None
              /\ producer[c].value = encode(rdd[k])

C1_Witness ==
    /\ Returned
    /\ rdd = <<MsgAllGood, MsgUAcuteIled>>
    /\ Cardinality(Accepted(output_topic)) = 1
    /\ producer[1].value = <<"\\", "x", "f", "a", "i", "l", "e", "d">>

(***************************************************************************)
(* C2: once a callback is over, whatever failed in it, the filtered        *)
(* counter is at most the total counter.                                   *)
(***************************************************************************)
C2_FilteredAtMostTotal ==
    pc \in {"done", "idle"} => filtercount <= totalcount

C2_Witness ==
    /\ Returned
    /\ nbatches = 2
    /\ Unencodable # {}
    /\ Refused(output_topic) # {}
    /\ filtercount >= 1
    /\ filtercount < totalcount

(***************************************************************************)
(* C3: a window processed without any per-message failure adds its length  *)
(* to the total counter and its number of matching messages to the         *)
(* filtered counter; from a fresh start <<"all good", "something failed    *)
(* here">> gives total 2 and filter 1.                                     *)
(***************************************************************************)
C3_ExactIncrements ==
    /\ (LoopDone /\ NoMessageFailure) =>
          /\ totalcount = entry.total + Len(rdd)
          /\ filtercount = entry.filter + Cardinality(Matching)
    /\ (LoopDone /\ NoMessageFailure /\ nbatches = 1
          /\ rdd = <<MsgAllGood, MsgSomethingFailed>>) =>
          /\ totalcount = 2
          /\ filtercount = 1

C3_Witness ==
    /\ Returned
    /\ nbatches = 1
    /\ rdd = <<MsgAllGood, MsgSomethingFailed>>
    /\ NoMessageFailure
    /\ totalcount = 2
    /\ filtercount = 1

(***************************************************************************)
(* C4: the payload sent to the count topic reads back as the two counters  *)
(* as they are when it is sent, and these are the values since start: what *)
(* the earlier windows left plus what this window added.  A window         *)
(* <<"error">> from a fresh start gives {1, 1}, and a following <<"ok">>   *)
(* gives {2, 1}.                                                           *)
(***************************************************************************)
C4_SnapshotIsCumulative ==
    \A c \in SendsTo(count_topic) :
        LET snap == json_loads(producer[c].value).counts
        IN  /\ snap.total = totalcount
            /\ snap.filter = filtercount
            /\ snap.total = entry.total + Len(rdd)
            /\ snap.filter = entry.filter + Cardinality(Accepted(output_topic))
            /\ (nbatches = 1 /\ rdd = <<MsgError>> /\ NoMessageFailure)
                  => snap = [total |-> 1, filter |-> 1]
            /\ (nbatches = 2 /\ rdd = <<MsgOk>> /\ entry = [total |-> 1, filter |-> 1])
                  => snap = [total |-> 2, filter |-> 1]

C4_Witness ==
    /\ Returned
    /\ nbatches = 2
    /\ entry = [total |-> 1, filter |-> 1]
    /\ rdd = <<MsgOk>>
    /\ producer[1].topic = count_topic
    /\ producer[1].value =
          <<"{", "\"counts\"", ":", " ", "{", "\"total\"", ":", " ", "2",
            ",", " ", "\"filter\"", ":", " ", "1", "}", "}">>

(***************************************************************************)
(* C5: within a callback the count snapshot is sent only once every        *)
(* message of the window has been processed: every send to the output      *)
(* topic, whether it raised or not, comes before it.                       *)
(***************************************************************************)
C5_CountsAfterMessages ==
    /\ pc = "counts" => Processed = 1..Len(rdd)
    /\ \A c \in SendsTo(count_topic) :
          /\ Processed = 1..Len(rdd)
          /\ Cardinality({d \in SendsTo(output_topic) : d < c}) = Cardinality(Matching)

C5_Witness ==
    /\ pc = "flush"
    /\ Len(rdd) = 2
    /\ Cardinality(Refused(output_topic)) = 1
    /\ Cardinality(Accepted(output_topic)) = 1
    /\ producer[3].topic = count_topic

(***************************************************************************)
(* C6: a failure on one message never ends the callback.  The step that    *)
(* fails prints the exception and goes on to the next message, or to the   *)
(* count snapshot after the last one; a callback that returns has          *)
(* processed every message, printed one report per failure and had its     *)
(* snapshot accepted.                                                      *)
(***************************************************************************)
C6_FailureIsContained ==
    /\ [][(IterationStep /\ (rdd[i] = None \/ SendRaisedInStep)) =>
             /\ Len(stdout') = Len(stdout) + 1
             /\ pc' = IF i < Len(rdd) THEN "loop" ELSE "counts"]_vars
    /\ [](Returned =>
             /\ Processed = 1..Len(rdd)
             /\ Len(stdout) = Cardinality(Unencodable) + Cardinality(Refused(output_topic))
             /\ Cardinality(Accepted(count_topic)) = 1)

C6_Witness ==
    /\ Returned
    /\ rdd = <<None, MsgError>>
    /\ stdout = <<"AttributeError">>
    /\ Cardinality(Accepted(output_topic)) = 1
    /\ Cardinality(Accepted(count_topic)) = 1

(***************************************************************************)
(* C7: the iteration of a message whose encoding raises adds one to the    *)
(* total counter and prints the exception; it sends nothing and leaves the *)
(* filtered counter alone.                                                 *)
(***************************************************************************)
C7_EncodeFailureCounted ==
    [][(IterationStep /\ rdd[i] = None) =>
          /\ totalcount' = totalcount + 1
          /\ filtercount' = filtercount
          /\ producer' = producer
          /\ stdout' = Append(stdout, "AttributeError")]_vars

C7_Witness ==
    /\ Returned
    /\ rdd = <<None>>
    /\ totalcount = entry.total + 1
    /\ filtercount = entry.filter
    /\ SendsTo(output_topic) = {}
    /\ stdout = <<"AttributeError">>

(***************************************************************************)
(* C8 as stated: when the send of a matching message raises, the filtered  *)
(* counter is still incremented for that message.                          *)
(***************************************************************************)
C8_Original ==
    [][SendRaisedInStep => filtercount' = filtercount + 1]_vars

(***************************************************************************)
(* C8 amended: when the send of a matching message raises, the filtered    *)
(* counter is not incremented for that message; the total counter is, and  *)
(* the exception is printed.                                               *)
(***************************************************************************)
C8_Amended ==
    [][SendRaisedInStep =>
          /\ filtercount' = filtercount
          /\ totalcount' = totalcount + 1
          /\ stdout' = Append(stdout, "KafkaError")]_vars

C8_Witness ==
    /\ Returned
    /\ rdd = <<MsgError>>
    /\ Refused(output_topic) = {1}
    /\ filtercount = entry.filter
    /\ totalcount = entry.total + 1

(***************************************************************************)
(* C9: in every window, failures included, the filtered counter grows by   *)
(* the number of messages that matched and whose send did not raise.       *)
(***************************************************************************)
C9_FilteredCountsAcceptedSends ==
    /\ filtercount = entry.filter + Cardinality(Accepted(output_topic))
    /\ Cardinality(SendsTo(output_topic)) = Cardinality(Matching \cap Processed)
    /\ LoopDone =>
          filtercount = entry.filter + Cardinality(Matching)
                                     - Cardinality(Refused(output_topic))

C9_Witness ==
    /\ Returned
    /\ rdd = <<MsgSomethingFailed, MsgError>>
    /\ Refused(output_topic) = {1}
    /\ Accepted(output_topic) = {2}
    /\ filtercount = entry.filter + 1

(***************************************************************************)
(* C10 as stated: in every window the total counter grows by the number of *)
(* messages that were successfully encoded.                                *)
(***************************************************************************)
C10_Original ==
    LoopDone =>
        totalcount = entry.total + Len(rdd) - Cardinality(Unencodable)

(***************************************************************************)
(* C10 amended: in every window the total counter grows by the number of   *)
(* messages of the window, whether or not their encoding succeeded.        *)
(***************************************************************************)
C10_Amended ==
    /\ totalcount = entry.total + Cardinality(Processed)
    /\ LoopDone => totalcount = entry.total + Len(rdd)

C10_Witness ==
    /\ Returned
    /\ rdd = <<None, MsgOk>>
    /\ totalcount = entry.total + 2

(***************************************************************************)
(* C11: both counters are 0 until the first window, no step lowers either  *)
(* of them, and only an iteration of the callback's loop changes them.     *)
(***************************************************************************)
C11_CountersMonotone ==
    /\ [](nbatches = 0 => (totalcount = 0 /\ filtercount = 0))
    /\ [][totalcount' >= totalcount /\ filtercount' >= filtercount]_vars
    /\ [][(totalcount' # totalcount \/ filtercount' # filtercount)
             => IterationStep]_vars

C11_Witness ==
    /\ Returned
    /\ nbatches = 2
    /\ entry.total >= 1
    /\ entry.filter >= 1
    /\ totalcount > entry.total
    /\ filtercount > entry.filter

(***************************************************************************)
(* C12: when two callbacks overlap no increment is lost: once both are     *)
(* over, the total counter has grown by the sizes of both windows and the  *)
(* filtered counter by the matching messages both have sent.               *)
(***************************************************************************)
C12_NoLostIncrement ==
    (\A w \in Workers : workers[w].pc = "done") =>
        /\ totalcount = Len(workers[1].rdd) + Len(workers[2].rdd)
        /\ filtercount = workers[1].sent + workers[2].sent

(***************************************************************************)
(* C13: the keyword test answers true exactly for the records in which one *)
(* of ERROR, Error, error, WARN, warn, failed, failure occurs somewhere,   *)
(* letter for letter in the same case, whatever stands before or after     *)
(* it; asked again about the same record it gives the same answer.         *)
(***************************************************************************)
SevenKeywords ==
    { <<"E", "R", "R", "O", "R">>, <<"E", "r", "r", "o", "r">>,
      <<"e", "r", "r", "o", "r">>, <<"W", "A", "R", "N">>, <<"w", "a", "r", "n">>,
      <<"f", "a", "i", "l", "e", "d">>, <<"f", "a", "i", "l", "u", "r", "e">> }

OccursIn(word, text) ==
    \E lo \in 1..Len(text) :
        /\ lo + Len(word) - 1 <= Len(text)
        /\ \A j \in 1..Len(word) : text[lo + j - 1] = word[j]

C13_ClassifierIsSubstringTest ==
    \A k \in 1..Len(probe.verdicts) :
        probe.verdicts[k] = (\E word \in SevenKeywords : OccursIn(word, probe.record))

C13_Witness ==
    /\ probe.record = <<"x", "e", "r", "r", "o", "r", "l", "e", "s", "s">>
    /\ probe.verdicts = <<TRUE, TRUE>>

C15_ConfiguredBeforeRunning ==
    /\ [][/\ (state' = "Configured" /\ state # "Configured") => state = "Created"
          /\ (state' = "Running" /\ state # "Running") => state = "Configured"
          /\ caller'.result = "returned" => state' = "Stopped"]_vars
    /\ [](state = "Running" => sink)
    /\ [](last # "dropped")
    /\ [](pc # "idle" => sink)

(* The call went through its three statements, a window was handled while  *)
(* it blocked, and it returned after the stop.                             *)
C15_Witness ==
    /\ caller.result = "returned"
    /\ state = "Stopped"
    /\ sink
    /\ nbatches >= 1
    /\ last = "returned"

(***************************************************************************)
(* C16: in a callback that has run to its end the producer was flushed     *)
(* exactly once, by its last call, after the send of the count snapshot    *)
(* and after every send to the output topic; and at no moment does any     *)
(* call follow a flush.                                                    *)
(***************************************************************************)
C16_FlushOnceAndLast ==
    /\ Returned =>
          /\ FlushCalls = {Len(producer)}
          /\ SendsTo(count_topic) = {Len(producer) - 1}
          /\ \A c \in SendsTo(output_topic) : c < Len(producer) - 1
    /\ \A c \in FlushCalls : c = Len(producer)

C16_Witness ==
    /\ Returned
    /\ Len(producer) = 4
    /\ SendsTo(output_topic) = {1, 2}
    /\ SendsTo(count_topic) = {3}
    /\ FlushCalls = {4}

(***************************************************************************)
(* C17: when the construction of the producer raises, the callback ends    *)
(* with that exception and nothing else has happened: no message of the    *)
(* window was gone through, both counters are what they were when the      *)
(* callback began, nothing was printed, and no call was made on any topic. *)
(***************************************************************************)
C17_ProducerFailureHasNoEffect ==
    [][(pc = "producer" /\ pc' = "done") =>
          /\ last' = "raised"
          /\ totalcount' = totalcount /\ totalcount' = entry.total
          /\ filtercount' = filtercount /\ filtercount' = entry.filter
          /\ i' = 1
          /\ producer' = <<>>
          /\ stdout' = <<>>
          /\ (caller.done = 2 => caller'.result = "raised")]_vars

(* The producer could not be constructed for a window of two messages,     *)
(* after an earlier window was counted.                                    *)
C17_Witness ==
    /\ Escaped
    /\ producer = <<>>
    /\ Len(rdd) = 2
    /\ nbatches = 2
    /\ totalcount >= 1
    /\ Counters = entry

(***************************************************************************)
(* C18: a callback that has run to its end has made exactly one send to    *)
(* the count topic, and it did not raise, whatever the window held; for an *)
(* empty window the snapshot sent reads back as the two counters as the    *)
(* window before left them.                                                *)
(***************************************************************************)
C18_OneSnapshotPerBatch ==
    Returned =>
        /\ Cardinality(SendsTo(count_topic)) = 1
        /\ Refused(count_topic) = {}
        /\ rdd = <<>> =>
              \A c \in SendsTo(count_topic) : json_loads(producer[c].value).counts = entry

(* An empty second window after a first one that counted something. *)
C18_Witness ==
    /\ Returned
    /\ rdd = <<>>
    /\ nbatches = 2
    /\ entry.total >= 1
    /\ entry.filter >= 1
    /\ Cardinality(SendsTo(count_topic)) = 1

(***************************************************************************)
(* C19: nothing takes back an increment.  When the send of the count       *)
(* snapshot raises, the callback ends without a flush and the counters     *)
(* keep what the window added; they are still so when the callback is left *)
(* and when the next one begins, and the snapshot of the next callback     *)
(* that runs to its end holds them together with what that window adds.    *)
(***************************************************************************)
C19_NoRollback ==
    /\ []((Escaped /\ Refused(count_topic) # {}) =>
             /\ totalcount = entry.total + Len(rdd)
             /\ filtercount = entry.filter + Cardinality(Accepted(output_topic))
             /\ FlushCalls = {})
    /\ [][(pc = "done" /\ pc' = "idle") => (Counters' = Counters /\ entry' = Counters)]_vars
    /\ [][(pc = "idle" /\ pc' = "producer") => (Counters' = Counters /\ entry' = entry)]_vars
    /\ [](Returned =>
             \A c \in SendsTo(count_topic) :
                 /\ json_loads(producer[c].value).counts.total = entry.total + Len(rdd)
                 /\ json_loads(producer[c].value).counts.filter =
                        entry.filter + Cardinality(Accepted(output_topic)))

(* The first window counted a message and its count send raised; the       *)
(* second callback has sent its snapshot, which holds that message too.    *)
C19_Witness ==
    /\ pc = "flush"
    /\ last = "raised"
    /\ nbatches = 2
    /\ entry.total >= 1
    /\ entry.filter >= 1
    /\ Len(rdd) = 1
    /\ json_loads(producer[Len(producer)].value).counts.total = entry.total + 1

=============================================================================
